---- MODULE Spec2Model ----
(***************************************************************************)
(* Transaction Management Core of the relay server: TransactionManager     *)
(* (sendTransaction, resendTransaction, removeConfirmedTransactions,       *)
(* boostUnderpricedPendingTransactionsForSigner, pollNonce,                *)
(* _resolveNewGasPrice) together with the collaborators it drives: the     *)
(* transaction store, the two key managers and the chain interactor.       *)
(*                                                                         *)
(* Every `await` of the source is a scheduling point: an action of this    *)
(* module runs from one await to the next.  Chain answers are inputs       *)
(* drawn from bounded sets.                                                *)
(***************************************************************************)
EXTENDS Integers, Sequences, FiniteSets, TLC

VARIABLES
    nonces,        \* TransactionManager.nonces: signer -> next nonce
    nonceMutex,    \* TransactionManager.nonceMutex: FIFO of callers, head holds it
    txStore,       \* TxStoreManager: the set of stored rows
    sends,         \* per caller: the locals of its sendTransaction call
    worker,        \* the locals of the running reap / boost call
    blockHeight,   \* chain head
    broadcasted,   \* txIds handed to contractInteractor.broadcastTransaction
    putLog,        \* every (txId, from, nonce) a putTx has written, in history
    numSends,      \* sendTransaction calls started so far
    numAcquired,   \* nonceMutex acquisitions completed so far
    numWorkerOps,  \* reap / boost calls started so far
    gasIn,         \* the old gas price handed to _resolveNewGasPrice
    gasCfg,        \* the configuration _resolveNewGasPrice reads
    gasOut         \* what _resolveNewGasPrice returned

vars == <<nonces, nonceMutex, txStore, sends, worker, blockHeight, broadcasted,
          putLog, numSends, numAcquired, numWorkerOps, gasIn, gasCfg, gasOut>>

-----------------------------------------------------------------------------
(* Bounds of the model *)

NumSenders == 2
MaxSends == 2
MaxRelaySends == 2
MaxRelayPending == 0
MaxWorkerOps == 2
MaxBlock == 2
MaxChainNonce == 2
MaxOldGasPrice == 12

-----------------------------------------------------------------------------
(* null / undefined of an optional field *)
Null == -1

Procs == 1..NumSenders

(* KeyManager.getAddress(0) of the manager and of the workers key manager *)
managerAddress == "mgr"
workerAddress == "wrk"
unknownAddress == "unk"

ConfiguredSigners == {managerAddress, workerAddress}

(* ServerConfigParams as handed to the constructor.  retryGasPriceFactor   *)
(* is the rational retryGasPriceFactorNum / retryGasPriceFactorDen.        *)
config ==
    [ confirmationsNeeded |-> 2,
      pendingTransactionTimeoutBlocks |-> 1,
      retryGasPriceFactorNum |-> 3,
      retryGasPriceFactorDen |-> 2,
      maxGasPrice |-> 3 ]

(* The gas prices a caller supplies or getGasPrice() returns *)
GasPrices == {1, 3}

(* destination, value, gasLimit, encoded call and serverAction of a request *)
Payloads ==
    { [destination |-> "d1", value |-> 0, gasLimit |-> 1, data |-> "0x",
       serverAction |-> "RelayCall"] }

-----------------------------------------------------------------------------
(* Key managers *)

managerIsSigner(signer) == signer = managerAddress

(* KeyManager.signTransaction fails when the manager it is asked does not  *)
(* hold the signer's key.                                                  *)
CanSign(keyManager, signer) ==
    \/ keyManager = "manager" /\ signer = managerAddress
    \/ keyManager = "workers" /\ signer = workerAddress

(* the key manager sendTransaction / resendTransaction pick *)
SelectKeyManager(signer) ==
    IF managerIsSigner(signer) THEN "manager" ELSE "workers"

(* Transaction.hash() of the signed transaction: one id per content *)
TxHash(from, tx) ==
    <<from, tx.nonce, tx.gasPrice, tx.to, tx.value, tx.gasLimit, tx.data>>

(* the hash a faulty broadcast answers with *)
BadHash == <<"bad">>

(* broadcastTransaction throws instead of answering *)
RpcFailure == <<"ChainRpcError">>

(* new Transaction({...}, rawTxOptions): number fields become integers *)
NewTransaction(to, value, gasLimit, gasPriceNum, gasPriceDen, data, nonce) ==
    [ to |-> to, value |-> value, gasLimit |-> gasLimit,
      gasPrice |-> gasPriceNum \div gasPriceDen, data |-> data, nonce |-> nonce ]

(* createStoredTransaction(tx, metadata) *)
createStoredTransaction(tx, metadata) ==
    [ txId |-> TxHash(metadata.from, tx),
      from |-> metadata.from,
      to |-> tx.to,
      gas |-> tx.gasLimit,
      gasPrice |-> tx.gasPrice,
      data |-> tx.data,
      value |-> tx.value,
      nonce |-> tx.nonce,
      attempts |-> metadata.attempts,
      serverAction |-> metadata.serverAction,
      creationBlockNumber |-> metadata.creationBlockNumber,
      boostBlockNumber |-> metadata.boostBlockNumber,
      minedBlockNumber |-> metadata.minedBlockNumber ]

-----------------------------------------------------------------------------
(* TxStoreManager *)

SameKey(a, b) == a.from = b.from /\ a.nonce = b.nonce

(* putTx(tx, updateExisting): does the write go through, given the rows *)
PutAllowed(store, tx, updateExisting) ==
    updateExisting \/ ~ \E r \in store : SameKey(r, tx)

(* putTx(tx, updateExisting): the rows afterwards *)
putTx(store, tx, updateExisting) ==
    { r \in store : ~ SameKey(r, tx) } \cup {tx}

(* removeTxsUntilNonce(signer, nonce) *)
removeTxsUntilNonce(store, signer, nonce) ==
    { r \in store : ~ (r.from = signer /\ r.nonce <= nonce) }

SignerRank(s) ==
    IF s = managerAddress THEN 0 ELSE IF s = workerAddress THEN 1 ELSE 2

RowBefore(a, b) ==
    \/ SignerRank(a.from) < SignerRank(b.from)
    \/ SignerRank(a.from) = SignerRank(b.from) /\ a.nonce < b.nonce

RECURSIVE SortRows(_)
SortRows(S) ==
    IF S = {} THEN <<>>
    ELSE LET m == CHOOSE r \in S : \A o \in S \ {r} : RowBefore(r, o)
         IN <<m>> \o SortRows(S \ {m})

(* getAll(): rows ascending by (from, nonce) *)
getAll(store) == SortRows(store)

(* getAllBySigner(signer): the signer's rows ascending by nonce *)
getAllBySigner(store, signer) == SortRows({ r \in store : r.from = signer })

-----------------------------------------------------------------------------
(* pollNonce without the comparison: the chain's count always wins *)
pollNonceFromChain(counters, signer, pendingCount) ==
    IF signer \in DOMAIN counters
    THEN [counters EXCEPT ![signer] = pendingCount]
    ELSE counters

(* pollNonce reading a missing counter as 0 and creating it *)
pollNonceCreatesCounter(counters, signer, pendingCount) ==
    IF signer \in DOMAIN counters
    THEN (IF pendingCount > counters[signer]
          THEN [counters EXCEPT ![signer] = pendingCount] ELSE counters)
    ELSE [x \in DOMAIN counters \cup {signer} |->
            IF x = signer THEN pendingCount ELSE counters[x]]

(* pollNonce without the nonce fix: the chain's count is ignored *)
pollNonceNoFix(counters, signer, pendingCount) == counters

(* pollNonce lines 306-315: the counters after the nonce fix, given the    *)
(* pending count the chain answered.  For a signer without a counter       *)
(* this.nonces[signer] is undefined and the comparison is false.           *)
pollNonce(counters, signer, pendingCount) ==
    IF signer \in DOMAIN counters /\ pendingCount > counters[signer]
    THEN [counters EXCEPT ![signer] = pendingCount]
    ELSE counters

(* pollNonce line 316: the nonce it returns, undefined without a counter *)
polledNonce(counters, signer) ==
    IF signer \in DOMAIN counters THEN counters[signer] ELSE Null

(* _resolveNewGasPrice capping already when the product equals the maximum *)
resolveNewGasPriceCapsAtEqual(oldGasPrice, cfg) ==
    LET product == oldGasPrice * cfg.retryGasPriceFactorNum
        cap == cfg.maxGasPrice * cfg.retryGasPriceFactorDen
    IN IF product >= cap
       THEN [newGasPriceNum |-> cap, isMaxGasPriceReached |-> TRUE]
       ELSE [newGasPriceNum |-> product, isMaxGasPriceReached |-> FALSE]

(* _resolveNewGasPrice(oldGasPrice).  newGasPrice is the rational          *)
(* newGasPriceNum / cfg.retryGasPriceFactorDen: the source multiplies by   *)
(* the factor and does not round.                                          *)
resolveNewGasPrice(oldGasPrice, cfg) ==
    LET product == oldGasPrice * cfg.retryGasPriceFactorNum
        cap == cfg.maxGasPrice * cfg.retryGasPriceFactorDen
    IN IF product > cap
       THEN [newGasPriceNum |-> cap, isMaxGasPriceReached |-> TRUE]
       ELSE [newGasPriceNum |-> product, isMaxGasPriceReached |-> FALSE]

-----------------------------------------------------------------------------
(* Initial state: after the constructor (_initNonces), store empty *)

(* no receipt fetched in this visit of the reap loop *)
NoReceipt == [found |-> FALSE, blockNumber |-> Null, fetched |-> FALSE]

IdleSend ==
    [ pc |-> "idle", signer |-> managerAddress, gasPrice |-> 0,
      creationBlockNumber |-> 0, payload |-> CHOOSE p \in Payloads : TRUE,
      pendingCount |-> Null, nonce |-> Null, txId |-> <<>>, ticket |-> 0,
      result |-> "none" ]

IdleWorker ==
    [ op |-> "none", pc |-> "idle", blockNumber |-> 0, signer |-> managerAddress,
      sortedTxs |-> <<>>, idx |-> 0, chainNonce |-> Null,
      newGasPriceNum |-> 0, isMaxGasPriceReached |-> FALSE,
      underpriced |-> <<>>, boosted |-> {}, storedTx |-> <<>>,
      signedTx |-> <<>>, receipt |-> NoReceipt, pruned |-> {},
      result |-> "none" ]

InitManager ==
    /\ nonces = [s \in ConfiguredSigners |-> 0]
    /\ nonceMutex = <<>>
    /\ txStore = {}
    /\ sends = [p \in Procs |-> IdleSend]
    /\ worker = IdleWorker
    /\ blockHeight = 0
    /\ broadcasted = {}
    /\ putLog = {}
    /\ numSends = 0
    /\ numAcquired = 0
    /\ numWorkerOps = 0

Init ==
    /\ InitManager
    /\ gasIn = 0
    /\ gasCfg = config
    /\ gasOut = resolveNewGasPrice(0, config)

managerVars == <<nonces, nonceMutex, txStore, sends, worker, blockHeight,
                 broadcasted, putLog, numSends, numAcquired, numWorkerOps>>
gasVars == <<gasIn, gasCfg, gasOut>>

-----------------------------------------------------------------------------
(* sendTransaction *)

(* the block numbers a caller can pass: a head it has read, maybe a while  *)
(* ago (creationBlockNumber, currentBlockHeight, blockNumber arguments)    *)
ObservedBlocks == 0..blockHeight

(* lines 145-159: resolve the gas price, then queue for the nonce mutex *)
SendCall(p, maxSends, signers, gasPrices, payloads) ==
    /\ sends[p].pc \in {"idle", "done"}
    /\ numSends < maxSends
    /\ \E signer \in signers, gasPrice \in gasPrices, payload \in payloads,
          creationBlockNumber \in ObservedBlocks :
          sends' = [sends EXCEPT ![p] =
                      [IdleSend EXCEPT !.pc = "acquire", !.signer = signer,
                                       !.gasPrice = gasPrice,
                                       !.payload = payload,
                                       !.creationBlockNumber = creationBlockNumber]]
    /\ nonceMutex' = Append(nonceMutex, p)
    /\ numSends' = numSends + 1
    /\ UNCHANGED <<nonces, txStore, worker, blockHeight, broadcasted, putLog,
                   numAcquired, numWorkerOps>>

(* what is left of a call once it has returned or thrown: the outcome, and *)
(* the nonce and hash it was about                                         *)
Returned(s, result) ==
    [IdleSend EXCEPT !.pc = "done", !.result = result, !.signer = s.signer,
                     !.nonce = s.nonce, !.ticket = s.ticket,
                     !.txId = IF result \in {"ok", "HashMismatch"} THEN s.txId
                              ELSE <<>>]

(* the transaction lines 164-174 build *)
SendTx(s, nonce) ==
    NewTransaction(s.payload.destination, s.payload.value, s.payload.gasLimit,
                   s.gasPrice, 1, s.payload.data, nonce)

(* the row of a send stored with attempts 0 *)
SendStoredTxNoAttempt(s, nonce) ==
    createStoredTransaction(SendTx(s, nonce),
        [ from |-> s.signer, attempts |-> 0, serverAction |-> s.payload.serverAction,
          creationBlockNumber |-> s.creationBlockNumber,
          boostBlockNumber |-> Null, minedBlockNumber |-> Null ])

(* the row lines 180-186 build *)
SendStoredTx(s, nonce) ==
    createStoredTransaction(SendTx(s, nonce),
        [ from |-> s.signer, attempts |-> 1, serverAction |-> s.payload.serverAction,
          creationBlockNumber |-> s.creationBlockNumber,
          boostBlockNumber |-> Null, minedBlockNumber |-> Null ])

(* nonces after line 187, this.nonces[signer]++ *)
IncrementNonce(counters, signer) ==
    IF signer \in DOMAIN counters
    THEN [counters EXCEPT ![signer] = @ + 1]
    ELSE counters

(* a finally block that forgets the release *)
releaseMutexForgotten(mutex) == mutex

(* line 191, releaseMutex(): the holder leaves, the next waiter holds *)
releaseMutex(mutex) == Tail(mutex)

(* lines 159-187: the mutex is acquired, pollNonce answers, the            *)
(* transaction is built and signed, the counter is incremented and putTx   *)
(* is started.  A failing getTransactionCount or signTransaction leaves    *)
(* through the finally block, which releases the mutex.                    *)
SendPoll(p, maxPending) ==
    /\ sends[p].pc = "acquire"
    /\ nonceMutex # <<>> /\ Head(nonceMutex) = p
    /\ numAcquired' = numAcquired + 1
    /\ LET s == sends[p] IN
       \/ \* getTransactionCount(signer, 'pending') throws
          /\ sends' = [sends EXCEPT ![p] =
                          Returned([s EXCEPT !.ticket = numAcquired + 1],
                                   "ChainRpcError")]
          /\ nonceMutex' = releaseMutex(nonceMutex)
          /\ UNCHANGED nonces
       \/ \E pendingCount \in 0..maxPending :
            LET fixed == pollNonce(nonces, s.signer, pendingCount)
                nonce == polledNonce(fixed, s.signer)
                polled == [s EXCEPT !.pendingCount = pendingCount,
                                    !.nonce = nonce,
                                    !.ticket = numAcquired + 1]
            IN IF CanSign(SelectKeyManager(s.signer), s.signer)
               THEN /\ nonces' = IncrementNonce(fixed, s.signer)
                    /\ sends' = [sends EXCEPT ![p] =
                                   [polled EXCEPT !.pc = "put",
                                       !.txId = SendStoredTx(s, nonce).txId]]
                    /\ UNCHANGED nonceMutex
               ELSE \* signTransaction throws: the finally block runs
                    /\ nonces' = fixed
                    /\ sends' = [sends EXCEPT ![p] = Returned(polled, "UnknownSigner")]
                    /\ nonceMutex' = releaseMutex(nonceMutex)
    /\ UNCHANGED <<txStore, worker, blockHeight, broadcasted, putLog, numSends,
                   numWorkerOps>>

LogOf(tx) == [txId |-> tx.txId, from |-> tx.from, nonce |-> tx.nonce]

(* the history of the store: every row it has held *)
Logged(log, store) == log \cup { LogOf(r) : r \in store }

(* does the hash the node answered equal the stored txId (lines 195, 275) *)
HashesMatch(transactionHash, txId) == transactionHash = txId

(* what broadcastTransaction(signedTx) can answer: the hash of the signed  *)
(* transaction, another hash, or a failure                                 *)
BroadcastAnswers(signedHash) == {signedHash, BadHash, RpcFailure}

BroadcastResult(answer, txId) ==
    IF answer = RpcFailure THEN "ChainRpcError"
    ELSE IF HashesMatch(answer, txId) THEN "ok" ELSE "HashMismatch"

(* the send keeping the mutex through its broadcast: the release is moved  *)
(* behind line 194                                                         *)
SendPutKeepsMutex(p) ==
    /\ sends[p].pc = "put"
    /\ LET s == sends[p]
           storedTx == SendStoredTx(s, s.nonce)
       IN \/ /\ PutAllowed(txStore, storedTx, FALSE)
             /\ txStore' = putTx(txStore, storedTx, FALSE)
             /\ putLog' = Logged(putLog, txStore')
             /\ sends' = [sends EXCEPT ![p].pc = "broadcast"]
             /\ UNCHANGED nonceMutex
          \/ /\ sends' = [sends EXCEPT ![p] =
                            Returned(s, IF PutAllowed(txStore, storedTx, FALSE)
                                        THEN "StoreIoError" ELSE "DuplicateNonce")]
             /\ nonceMutex' = releaseMutex(nonceMutex)
             /\ UNCHANGED <<txStore, putLog>>
    /\ UNCHANGED <<nonces, worker, blockHeight, broadcasted, numSends, numAcquired,
                   numWorkerOps>>

(* lines 188-192: putTx(storedTx, false) completes or throws; the finally  *)
(* block releases the mutex either way.                                    *)
SendPut(p) ==
    /\ sends[p].pc = "put"
    /\ LET s == sends[p]
           storedTx == SendStoredTx(s, s.nonce)
       IN \/ /\ PutAllowed(txStore, storedTx, FALSE)
             /\ txStore' = putTx(txStore, storedTx, FALSE)
             /\ putLog' = Logged(putLog, txStore')
             /\ sends' = [sends EXCEPT ![p].pc = "broadcast"]
          \/ \* the store rejects or fails the write
             /\ sends' = [sends EXCEPT ![p] =
                            Returned(s, IF PutAllowed(txStore, storedTx, FALSE)
                                        THEN "StoreIoError" ELSE "DuplicateNonce")]
             /\ UNCHANGED <<txStore, putLog>>
    /\ nonceMutex' = releaseMutex(nonceMutex)
    /\ UNCHANGED <<nonces, worker, blockHeight, broadcasted, numSends, numAcquired,
                   numWorkerOps>>

(* lines 193-204: broadcast, then compare the returned hash *)
SendBroadcast(p) ==
    /\ sends[p].pc = "broadcast"
    /\ LET s == sends[p]
           signedTx == TxHash(s.signer, SendTx(s, s.nonce))
       IN /\ broadcasted' = broadcasted \cup {signedTx}
          /\ \E answer \in BroadcastAnswers(signedTx) :
                sends' = [sends EXCEPT ![p] =
                            Returned(s, BroadcastResult(answer, s.txId))]
    /\ UNCHANGED <<nonces, nonceMutex, txStore, worker, blockHeight, putLog,
                   numSends, numAcquired, numWorkerOps>>

(* the chain grows by a block *)
NewBlock ==
    /\ blockHeight < MaxBlock
    /\ blockHeight' = blockHeight + 1
    /\ UNCHANGED <<nonces, nonceMutex, txStore, sends, worker, broadcasted, putLog,
                   numSends, numAcquired, numWorkerOps>>

-----------------------------------------------------------------------------
(* removeConfirmedTransactions *)

WorkerFree == worker.pc \in {"idle", "done"}

(* what contractInteractor.getTransaction(txId) can answer: nothing, a     *)
(* transaction not yet in a block, or one mined in a block up to the head. *)
(* Only a broadcast transaction is known to the chain.                     *)
Receipts(txId) ==
    {[found |-> FALSE, blockNumber |-> Null, fetched |-> TRUE]}
    \cup IF txId \in broadcasted
         THEN { [found |-> TRUE, blockNumber |-> b, fetched |-> TRUE] :
                   b \in {Null} \cup 0..blockHeight }
         ELSE {}

(* the loop fetching the receipt of every row *)
shouldRecheckAlways(transaction, blockNumber) == TRUE

(* lines 330-333 *)
shouldRecheck(transaction, blockNumber) ==
    \/ transaction.minedBlockNumber = Null
    \/ blockNumber - transaction.minedBlockNumber >= config.confirmationsNeeded

(* updateTransactionWithMinedBlock building the row anew and losing what  *)
(* the resends recorded on it                                              *)
WithMinedBlockFresh(tx, minedBlockNumber) ==
    [tx EXCEPT !.minedBlockNumber = minedBlockNumber,
               !.attempts = 1, !.boostBlockNumber = Null]

(* lines 206-212: the row updateTransactionWithMinedBlock writes *)
WithMinedBlock(tx, minedBlockNumber) ==
    [tx EXCEPT !.minedBlockNumber = minedBlockNumber]

(* the loop updating, not removing, at exactly confirmationsNeeded *)
ReapDecisionOffByOne(transaction, receipt, blockNumber) ==
    IF ~ receipt.found \/ receipt.blockNumber = Null THEN "skip"
    ELSE IF /\ receipt.blockNumber # transaction.minedBlockNumber
            /\ blockNumber - receipt.blockNumber <= config.confirmationsNeeded
         THEN "update"
         ELSE "remove"

(* lines 338-375: what one visit of the loop does with the receipt *)
ReapDecision(transaction, receipt, blockNumber) ==
    IF ~ receipt.found \/ receipt.blockNumber = Null THEN "skip"
    ELSE IF /\ receipt.blockNumber # transaction.minedBlockNumber
            /\ blockNumber - receipt.blockNumber < config.confirmationsNeeded
         THEN "update"
         ELSE "remove"

(* the sweep visiting its snapshot from the highest nonce down *)
ReapCallDescending(blockNumber) ==
    /\ WorkerFree
    /\ numWorkerOps < MaxWorkerOps
    /\ numWorkerOps' = numWorkerOps + 1
    /\ LET ascending == getAll(txStore)
           sortedTxs == [i \in 1..Len(ascending) |->
                           ascending[Len(ascending) + 1 - i]]
       IN
       worker' = [IdleWorker EXCEPT !.op = "reap",
                     !.pc = IF Len(sortedTxs) = 0 THEN "done" ELSE "reapLoop",
                     !.result = IF Len(sortedTxs) = 0 THEN "ok" ELSE "none",
                     !.blockNumber = blockNumber,
                     !.sortedTxs = sortedTxs, !.idx = 1]
    /\ UNCHANGED <<nonces, nonceMutex, txStore, sends, blockHeight, broadcasted,
                   putLog, numSends, numAcquired>>

(* lines 319-327: load the rows, bail out if there are none *)
ReapCall(blockNumber) ==
    /\ WorkerFree
    /\ numWorkerOps < MaxWorkerOps
    /\ numWorkerOps' = numWorkerOps + 1
    /\ LET sortedTxs == getAll(txStore) IN
       worker' = [IdleWorker EXCEPT !.op = "reap",
                     !.pc = IF Len(sortedTxs) = 0 THEN "done" ELSE "reapLoop",
                     !.result = IF Len(sortedTxs) = 0 THEN "ok" ELSE "none",
                     !.blockNumber = blockNumber,
                     !.sortedTxs = sortedTxs, !.idx = 1]
    /\ UNCHANGED <<nonces, nonceMutex, txStore, sends, blockHeight, broadcasted,
                   putLog, numSends, numAcquired>>

(* what is left of a worker call once it has returned or thrown: its      *)
(* arguments, the answers of the chain it last read and its result        *)
WorkerReturned(w, result) ==
    [IdleWorker EXCEPT !.op = w.op, !.pc = "done", !.result = result,
                       !.signer = w.signer, !.blockNumber = w.blockNumber,
                       !.boosted = w.boosted, !.chainNonce = w.chainNonce,
                       !.receipt = w.receipt, !.pruned = w.pruned]

WorkerAbort(w, error) == WorkerReturned(w, error)

ReapAdvance(w) ==
    IF w.idx = Len(w.sortedTxs) THEN WorkerReturned(w, "ok")
    ELSE [w EXCEPT !.idx = @ + 1]

(* lines 329-377: one visit of the loop over the snapshot *)
ReapStep ==
    /\ worker.pc = "reapLoop"
    /\ LET transaction == worker.sortedTxs[worker.idx]
           blockNumber == worker.blockNumber
           unfetched == [worker EXCEPT !.receipt = NoReceipt]
       IN IF ~ shouldRecheck(transaction, blockNumber)
          THEN /\ worker' = ReapAdvance(unfetched)
               /\ UNCHANGED <<txStore, putLog>>
          ELSE \/ \* getTransaction throws
                  /\ worker' = WorkerAbort(unfetched, "ChainRpcError")
                  /\ UNCHANGED <<txStore, putLog>>
               \/ \E receipt \in Receipts(transaction.txId) :
                    LET decision == ReapDecision(transaction, receipt, blockNumber)
                        fetched == [worker EXCEPT !.receipt = receipt]
                    IN
                    /\ decision = "skip"
                         => /\ worker' = ReapAdvance(fetched)
                            /\ UNCHANGED <<txStore, putLog>>
                    /\ decision = "update"
                         => LET storedTx == WithMinedBlock(transaction, receipt.blockNumber)
                            IN \/ /\ txStore' = putTx(txStore, storedTx, TRUE)
                                  /\ putLog' = Logged(putLog, txStore')
                                  /\ worker' = ReapAdvance(fetched)
                               \/ /\ worker' = WorkerAbort(fetched, "StoreIoError")
                                  /\ UNCHANGED <<txStore, putLog>>
                    /\ decision = "remove"
                         => \* receipt.from, receipt.nonce are those the txId was signed with
                            \/ /\ txStore' = removeTxsUntilNonce(txStore, transaction.from,
                                                                 transaction.nonce)
                               /\ worker' = ReapAdvance(
                                     [fetched EXCEPT !.pruned = @ \cup
                                        {<<transaction.from, transaction.nonce>>}])
                               /\ UNCHANGED putLog
                            \/ /\ worker' = WorkerAbort(fetched, "StoreIoError")
                               /\ UNCHANGED <<txStore, putLog>>
    /\ UNCHANGED <<nonces, nonceMutex, sends, blockHeight, broadcasted,
                   numSends, numAcquired, numWorkerOps>>

-----------------------------------------------------------------------------
(* boostUnderpricedPendingTransactionsForSigner and resendTransaction *)

(* lines 408-410 *)
lastSentAtBlockHeight(oldestPendingTx) ==
    IF oldestPendingTx.boostBlockNumber # Null
    THEN oldestPendingTx.boostBlockNumber
    ELSE oldestPendingTx.creationBlockNumber

(* the timeout comparison with <= in place of < *)
StillPatientAtTimeout(oldestPendingTx, currentBlockHeight) ==
    currentBlockHeight - lastSentAtBlockHeight(oldestPendingTx)
        <= config.pendingTransactionTimeoutBlocks

(* lines 412-415: still waiting for the oldest transaction *)
StillPatient(oldestPendingTx, currentBlockHeight) ==
    currentBlockHeight - lastSentAtBlockHeight(oldestPendingTx)
        < config.pendingTransactionTimeoutBlocks

(* the mined check looking one nonce too far *)
IsMinedBelow(oldestPendingTx, nonce) == oldestPendingTx.nonce + 1 < nonce

(* line 401: the oldest transaction is mined, awaiting confirmations *)
IsMined(oldestPendingTx, nonce) == oldestPendingTx.nonce < nonce

(* line 427: it.gasPrice < newGasPrice *)
IsUnderpriced(it, newGasPriceNum) ==
    it.gasPrice * config.retryGasPriceFactorDen < newGasPriceNum

(* lines 426-428 *)
underpricedTransactions(sortedTxs, newGasPriceNum) ==
    SelectSeq(sortedTxs, LAMBDA it : IsUnderpriced(it, newGasPriceNum))

(* lines 393-428: load the signer's rows, read the latest count, decide *)
BoostCall(signer, currentBlockHeight) ==
    /\ WorkerFree
    /\ numWorkerOps < MaxWorkerOps
    /\ numWorkerOps' = numWorkerOps + 1
    /\ LET sortedTxs == getAllBySigner(txStore, signer)
           start == [IdleWorker EXCEPT !.op = "boost", !.signer = signer,
                        !.blockNumber = currentBlockHeight,
                        !.sortedTxs = sortedTxs]
       IN IF Len(sortedTxs) = 0
          THEN worker' = WorkerReturned(start, "ok")
          ELSE \/ \* getTransactionCount(signer) throws
                  worker' = WorkerAbort(start, "ChainRpcError")
               \/ \E nonce \in 0..MaxChainNonce :
                    LET oldestPendingTx == sortedTxs[1]
                        counted == [start EXCEPT !.chainNonce = nonce]
                        return == WorkerReturned(counted, "ok")
                        resolved == resolveNewGasPrice(oldestPendingTx.gasPrice, config)
                        underpriced ==
                            underpricedTransactions(sortedTxs, resolved.newGasPriceNum)
                    IN IF IsMined(oldestPendingTx, nonce)
                       THEN worker' = return
                       ELSE IF StillPatient(oldestPendingTx, currentBlockHeight)
                       THEN worker' = return
                       ELSE IF Len(underpriced) = 0
                       THEN worker' = return
                       ELSE worker' =
                              [counted EXCEPT
                                 !.newGasPriceNum = resolved.newGasPriceNum,
                                 !.isMaxGasPriceReached = resolved.isMaxGasPriceReached,
                                 !.underpriced = underpriced,
                                 !.sortedTxs = <<>>,
                                 !.idx = 1,
                                 !.pc = "resendPut"]
    /\ UNCHANGED <<nonces, nonceMutex, txStore, sends, blockHeight, broadcasted,
                   putLog, numSends, numAcquired>>

(* lines 241-250: same to, gasLimit, data, nonce; the new gas price; no value *)
ResendTx(tx, newGasPriceNum) ==
    NewTransaction(tx.to, 0, tx.gas, newGasPriceNum, config.retryGasPriceFactorDen,
                   tx.data, tx.nonce)

(* updateTransactionWithAttempt keeping the replaced row's txId and price *)
updateTransactionWithAttemptStale(txToSign, tx, currentBlock) ==
    [tx EXCEPT !.attempts = @ + 1, !.boostBlockNumber = currentBlock]

(* lines 216-229: the row updateTransactionWithAttempt builds *)
updateTransactionWithAttempt(txToSign, tx, currentBlock) ==
    createStoredTransaction(txToSign,
        [ attempts |-> tx.attempts + 1,
          boostBlockNumber |-> currentBlock,
          from |-> tx.from,
          serverAction |-> tx.serverAction,
          creationBlockNumber |-> tx.creationBlockNumber,
          minedBlockNumber |-> tx.minedBlockNumber ])

(* resendTransaction counting the nonce it re-uses, as sendTransaction     *)
(* does for a fresh one                                                    *)
ResendPutCountsNonce ==
    /\ worker.pc = "resendPut"
    /\ LET tx == worker.underpriced[worker.idx]
           txToSign == ResendTx(tx, worker.newGasPriceNum)
           storedTx == updateTransactionWithAttempt(txToSign, tx, worker.blockNumber)
       IN IF ~ CanSign(SelectKeyManager(tx.from), tx.from)
          THEN /\ worker' = WorkerAbort(worker, "UnknownSigner")
               /\ UNCHANGED <<txStore, putLog, nonces>>
          ELSE \/ /\ txStore' = putTx(txStore, storedTx, TRUE)
                  /\ putLog' = Logged(putLog, txStore')
                  /\ nonces' = IncrementNonce(nonces, tx.from)
                  /\ worker' = [worker EXCEPT !.pc = "resendBroadcast",
                                              !.storedTx = storedTx,
                                              !.signedTx = TxHash(tx.from, txToSign)]
               \/ /\ worker' = WorkerAbort(worker, "StoreIoError")
                  /\ UNCHANGED <<txStore, putLog, nonces>>
    /\ UNCHANGED <<nonceMutex, sends, blockHeight, broadcasted,
                   numSends, numAcquired, numWorkerOps>>

(* lines 241-260: resendTransaction signs and writes the new row *)
ResendPut ==
    /\ worker.pc = "resendPut"
    /\ LET tx == worker.underpriced[worker.idx]
           txToSign == ResendTx(tx, worker.newGasPriceNum)
           storedTx == updateTransactionWithAttempt(txToSign, tx, worker.blockNumber)
       IN IF ~ CanSign(SelectKeyManager(tx.from), tx.from)
          THEN /\ worker' = WorkerAbort(worker, "UnknownSigner")
               /\ UNCHANGED <<txStore, putLog>>
          ELSE \/ /\ txStore' = putTx(txStore, storedTx, TRUE)
                  /\ putLog' = Logged(putLog, txStore')
                  /\ worker' = [worker EXCEPT !.pc = "resendBroadcast",
                                              !.storedTx = storedTx,
                                              !.signedTx = TxHash(tx.from, txToSign)]
               \/ /\ worker' = WorkerAbort(worker, "StoreIoError")
                  /\ UNCHANGED <<txStore, putLog>>
    /\ UNCHANGED <<nonces, nonceMutex, sends, blockHeight, broadcasted,
                   numSends, numAcquired, numWorkerOps>>

(* lines 269-283 and 436-449: read the count, broadcast, compare the hash, *)
(* record the replacement and go on with the next underpriced row          *)
ResendBroadcast ==
    /\ worker.pc = "resendBroadcast"
    /\ LET tx == worker.underpriced[worker.idx]
           last == worker.idx = Len(worker.underpriced)
       IN \/ \* getTransactionCount(tx.from) throws: nothing is broadcast
             /\ worker' = WorkerAbort(worker, "ChainRpcError")
             /\ UNCHANGED broadcasted
          \/ /\ broadcasted' = broadcasted \cup {worker.signedTx}
             /\ \E answer \in BroadcastAnswers(worker.signedTx) :
                  LET result == BroadcastResult(answer, worker.storedTx.txId)
                      set == [worker EXCEPT
                                !.boosted = @ \cup {<<tx.txId, answer>>}]
                  IN worker' = IF result # "ok" THEN WorkerAbort(worker, result)
                               ELSE IF last THEN WorkerReturned(set, "ok")
                               ELSE [set EXCEPT !.idx = @ + 1, !.pc = "resendPut",
                                                !.storedTx = <<>>, !.signedTx = <<>>]
    /\ UNCHANGED <<nonces, nonceMutex, txStore, sends, blockHeight, putLog,
                   numSends, numAcquired, numWorkerOps>>

-----------------------------------------------------------------------------
(* _resolveNewGasPrice on its own, over old prices and configurations *)

GasConfigs ==
    { [config EXCEPT !.retryGasPriceFactorNum = f[1],
                     !.retryGasPriceFactorDen = f[2],
                     !.maxGasPrice = m] :
        f \in {<<3, 2>>, <<6, 5>>, <<2, 1>>}, m \in {3, 6, 9} }

InitGas ==
    /\ InitManager
    /\ gasIn \in 0..MaxOldGasPrice
    /\ gasCfg \in GasConfigs
    /\ gasOut = [newGasPriceNum |-> Null, isMaxGasPriceReached |-> FALSE]

GasResolve ==
    /\ gasOut.newGasPriceNum = Null
    /\ gasOut' = resolveNewGasPrice(gasIn, gasCfg)
    /\ UNCHANGED <<gasIn, gasCfg>>
    /\ UNCHANGED managerVars

NextGas == GasResolve

SpecGas == InitGas /\ [][NextGas]_vars

-----------------------------------------------------------------------------
(* The relay: callers of sendTransaction and the worker loop *)

SendSigners == {managerAddress, workerAddress, unknownAddress}

(* the callers of sendTransaction that run beside the worker loop *)
RelayProcs == {1}

Next ==
    \/ \E p \in RelayProcs :
          SendCall(p, MaxRelaySends, ConfiguredSigners, GasPrices, Payloads)
              /\ UNCHANGED gasVars
    \/ \E p \in RelayProcs : SendPoll(p, MaxRelayPending) /\ UNCHANGED gasVars
    \/ \E p \in RelayProcs : SendPut(p) /\ UNCHANGED gasVars
    \/ \E p \in RelayProcs : SendBroadcast(p) /\ UNCHANGED gasVars
    \/ NewBlock /\ UNCHANGED gasVars
    \/ \E blockNumber \in ObservedBlocks :
          ReapCall(blockNumber) /\ UNCHANGED gasVars
    \/ ReapStep /\ UNCHANGED gasVars
    \/ \E signer \in ConfiguredSigners, currentBlockHeight \in ObservedBlocks :
          BoostCall(signer, currentBlockHeight) /\ UNCHANGED gasVars
    \/ ResendPut /\ UNCHANGED gasVars
    \/ ResendBroadcast /\ UNCHANGED gasVars

Spec == Init /\ [][Next]_vars

(* The relay with the manager key alone in use, and a chain that may count *)
(* pending transactions of that key the relay did not send (nonce fix)     *)
NextNonceFix ==
    \/ \E p \in RelayProcs :
          SendCall(p, MaxRelaySends, {managerAddress}, GasPrices, Payloads)
              /\ UNCHANGED gasVars
    \/ \E p \in RelayProcs : SendPoll(p, MaxChainNonce) /\ UNCHANGED gasVars
    \/ \E p \in RelayProcs : SendPut(p) /\ UNCHANGED gasVars
    \/ \E p \in RelayProcs : SendBroadcast(p) /\ UNCHANGED gasVars
    \/ NewBlock /\ UNCHANGED gasVars
    \/ \E blockNumber \in ObservedBlocks :
          ReapCall(blockNumber) /\ UNCHANGED gasVars
    \/ ReapStep /\ UNCHANGED gasVars
    \/ \E currentBlockHeight \in ObservedBlocks :
          BoostCall(managerAddress, currentBlockHeight) /\ UNCHANGED gasVars
    \/ ResendPut /\ UNCHANGED gasVars
    \/ ResendBroadcast /\ UNCHANGED gasVars

SpecNonceFix == Init /\ [][NextNonceFix]_vars

(* Concurrent callers of sendTransaction alone, over every signer *)
NextSend ==
    \/ \E p \in Procs : SendCall(p, MaxSends, SendSigners, {1}, Payloads)
                            /\ UNCHANGED gasVars
    \/ \E p \in Procs : SendPoll(p, MaxChainNonce) /\ UNCHANGED gasVars
    \/ \E p \in Procs : SendPut(p) /\ UNCHANGED gasVars
    \/ \E p \in Procs : SendBroadcast(p) /\ UNCHANGED gasVars

SpecSend == Init /\ [][NextSend]_vars

(* The same callers under the scheduling of the event loop: a continuation *)
(* that can run does run, and the chain and store calls it waits for       *)
(* settle.                                                                 *)
FairSend ==
    \A p \in Procs :
        /\ WF_vars(SendPoll(p, MaxChainNonce) /\ UNCHANGED gasVars)
        /\ WF_vars(SendPut(p) /\ UNCHANGED gasVars)
        /\ WF_vars(SendBroadcast(p) /\ UNCHANGED gasVars)

SpecSendFair == Init /\ [][NextSend]_vars /\ FairSend

-----------------------------------------------------------------------------
(* Properties *)

Max(a, b) == IF a >= b THEN a ELSE b

(* the call of p has written its row: it is at, or past, its broadcast *)
StoredBy(p) ==
    \/ sends[p].pc = "broadcast"
    \/ /\ sends[p].pc = "done"
       /\ sends[p].result \in {"ok", "HashMismatch", "ChainRpcError"}
       /\ sends[p].nonce # Null

(* q acquired the nonce mutex right after p, both for the same signer *)
Consecutive(p, q) ==
    /\ p # q
    /\ StoredBy(p) /\ StoredBy(q)
    /\ sends[p].signer = sends[q].signer
    /\ sends[q].ticket = sends[p].ticket + 1

(* C1, as stated: two sends of one signer that both stored a row, the      *)
(* second acquiring the mutex right after the first, hold nonces n, n+1.   *)
C1_NextNonce ==
    \A p, q \in Procs :
        Consecutive(p, q) => sends[q].nonce = sends[p].nonce + 1

(* C1, amended: two sends of one signer that both stored a row hold        *)
(* distinct nonces, the earlier acquirer the smaller one; the later one    *)
(* holds n+1 unless the pending count its poll read is larger, and then    *)
(* it holds that count (read off while the later call still holds its      *)
(* poll result, before it returns).                                        *)
C1_OrderedNonces ==
    \A p, q \in Procs :
        /\ ( /\ p # q /\ StoredBy(p) /\ StoredBy(q)
             /\ sends[p].signer = sends[q].signer
             /\ sends[p].ticket < sends[q].ticket )
              => sends[p].nonce < sends[q].nonce
        /\ (Consecutive(p, q) /\ sends[q].pc = "broadcast")
              => sends[q].nonce = Max(sends[p].nonce + 1, sends[q].pendingCount)

(* two sends of one signer, both rows written, both broadcasts outstanding *)
C1_Witness ==
    \E p, q \in Procs :
        /\ Consecutive(p, q)
        /\ sends[p].pc = "broadcast" /\ sends[q].pc = "broadcast"
        /\ sends[q].nonce = sends[p].nonce + 1

(* C2: every transaction handed to broadcastTransaction, by a send or a    *)
(* resend, has a row for its (signer, nonce) with its txId written to the  *)
(* store before.                                                           *)
C2_StoredBeforeBroadcast ==
    \A t \in broadcasted :
        \E l \in putLog : l.txId = t /\ l.from = t[1] /\ l.nonce = t[2]

(* a send and a resend have both broadcast *)
C2_Witness ==
    /\ \E p \in Procs : sends[p].pc = "done" /\ sends[p].result = "ok"
    /\ worker.op = "boost" /\ worker.boosted # {}
    /\ \E r \in txStore : r.attempts = 2 /\ r.txId \in broadcasted

StoredNonces(signer) == { r.nonce : r \in { x \in txStore : x.from = signer } }

(* C3: for every signer the stored nonces are a contiguous range. *)
C3_ContiguousNonces ==
    \A signer \in ConfiguredSigners :
        \A a, b \in StoredNonces(signer) :
            \A k \in a..b : k \in StoredNonces(signer)

StoreErrors == {"StoreIoError", "DuplicateNonce"}

(* C4: when putTx fails inside a send, the signer's counter is the nonce   *)
(* the poll returned: it has not been incremented.                         *)
C4_CounterUntouchedOnFailedPut ==
    [][ \A p \in Procs :
          ( /\ sends[p].pc = "put"
            /\ sends'[p].pc = "done"
            /\ sends'[p].result \in StoreErrors )
          => nonces'[sends[p].signer] = sends[p].nonce ]_vars

(* C5: a send that failed with HashMismatch has left its row in the store, *)
(* with the locally computed txId, attempts = 1, no boost and its nonce.   *)
C5_RowKeptOnHashMismatch ==
    \A p \in Procs :
        (sends[p].pc = "done" /\ sends[p].result = "HashMismatch")
        => \E r \in txStore :
              /\ r.txId = sends[p].txId
              /\ r.from = sends[p].signer
              /\ r.nonce = sends[p].nonce
              /\ r.attempts = 1
              /\ r.boostBlockNumber = Null
              /\ r.minedBlockNumber = Null

(* a send has failed with HashMismatch *)
C5_Witness ==
    \E p \in Procs :
        /\ sends[p].pc = "done" /\ sends[p].result = "HashMismatch"
        /\ sends[p].txId \in broadcasted

InQueue(p) == \E i \in 1..Len(nonceMutex) : nonceMutex[i] = p

C6_NothingForUnknownSigner ==
    /\ \A r \in txStore : r.from # unknownAddress
    /\ \A t \in broadcasted : t[1] # unknownAddress
    /\ DOMAIN nonces = ConfiguredSigners
    /\ \A p \in Procs :
          (sends[p].signer = unknownAddress /\ sends[p].pc = "done")
          => /\ sends[p].result \in {"UnknownSigner", "ChainRpcError"}
             /\ ~ InQueue(p)

C6_UnknownSignerStep ==
    \A p \in Procs :
        ( /\ sends[p].signer = unknownAddress
          /\ sends[p].pc = "acquire"
          /\ sends'[p].pc # "acquire" )
        => /\ sends'[p].pc = "done"
           /\ sends'[p].pendingCount # Null => sends'[p].result = "UnknownSigner"
           /\ nonces' = nonces
           /\ txStore' = txStore
           /\ broadcasted' = broadcasted
           /\ nonceMutex' = Tail(nonceMutex)

(* C6: a send for a signer no key manager owns fails with UnknownSigner    *)
(* once the pending count has been read: no row is stored, nothing is      *)
(* broadcast, no counter changes or appears, and the mutex is released.    *)
C6_UnknownSigner ==
    /\ []C6_NothingForUnknownSigner
    /\ [][C6_UnknownSignerStep]_vars

(* a send for the unknown signer has failed while another call waits *)
C6_Witness ==
    \E p \in Procs :
        /\ sends[p].pc = "done"
        /\ sends[p].signer = unknownAddress
        /\ sends[p].result = "UnknownSigner"
        /\ nonceMutex # <<>>

(* C7, as stated: the repriced value is at least the old price, at most    *)
(* maxGasPrice, and capped exactly when old * factor > maxGasPrice.        *)
C7_Monotonic ==
    gasOut.newGasPriceNum # Null
    => /\ gasOut.newGasPriceNum >= gasIn * gasCfg.retryGasPriceFactorDen
       /\ gasOut.newGasPriceNum <= gasCfg.maxGasPrice * gasCfg.retryGasPriceFactorDen
       /\ gasOut.isMaxGasPriceReached
            <=> (gasIn * gasCfg.retryGasPriceFactorNum
                    > gasCfg.maxGasPrice * gasCfg.retryGasPriceFactorDen)

(* C7, amended: the repriced value is at most maxGasPrice and capped       *)
(* exactly when old * factor > maxGasPrice; uncapped it is old * factor;   *)
(* it is at least the old price when the old price is at most maxGasPrice, *)
(* and it is maxGasPrice, below the old price, when the old price exceeds  *)
(* maxGasPrice.                                                            *)
C7_CappedRepricing ==
    gasOut.newGasPriceNum # Null
    => LET den == gasCfg.retryGasPriceFactorDen
           num == gasCfg.retryGasPriceFactorNum
           max == gasCfg.maxGasPrice
       IN /\ gasOut.newGasPriceNum <= max * den
          /\ gasOut.isMaxGasPriceReached <=> (gasIn * num > max * den)
          /\ ~ gasOut.isMaxGasPriceReached => gasOut.newGasPriceNum = gasIn * num
          /\ gasIn <= max => gasOut.newGasPriceNum >= gasIn * den
          /\ gasIn > max => /\ gasOut.newGasPriceNum = max * den
                            /\ gasOut.newGasPriceNum < gasIn * den
                            /\ gasOut.isMaxGasPriceReached

(* old * factor equals maxGasPrice exactly, and the result is not capped *)
C7_Witness ==
    /\ gasOut.newGasPriceNum # Null
    /\ gasIn > 0
    /\ gasIn * gasCfg.retryGasPriceFactorNum
          = gasCfg.maxGasPrice * gasCfg.retryGasPriceFactorDen
    /\ ~ gasOut.isMaxGasPriceReached

(* the step in which boostUnderpricedPendingTransactionsForSigner is       *)
(* called and has read the signer's rows and the latest count              *)
BoostCalled ==
    /\ numWorkerOps' = numWorkerOps + 1
    /\ worker'.op = "boost"

SignerRows(signer) == { r \in txStore : r.from = signer }

OldestRow(signer) ==
    CHOOSE r \in SignerRows(signer) : \A o \in SignerRows(signer) : r.nonce <= o.nonce

ReferenceBlock(row) ==
    IF row.boostBlockNumber # Null THEN row.boostBlockNumber
    ELSE row.creationBlockNumber

(* old * factor, clamped to maxGasPrice, in units of 1 / factor denominator *)
RepricedNum(old) ==
    IF old * config.retryGasPriceFactorNum
          > config.maxGasPrice * config.retryGasPriceFactorDen
    THEN config.maxGasPrice * config.retryGasPriceFactorDen
    ELSE old * config.retryGasPriceFactorNum

(* the call concerns a signer with rows whose oldest nonce is not below    *)
(* the latest count the chain answered                                     *)
BoostOfPending ==
    /\ BoostCalled
    /\ SignerRows(worker'.signer) # {}
    /\ worker'.chainNonce # Null
    /\ OldestRow(worker'.signer).nonce >= worker'.chainNonce

BoostDoesNothing ==
    /\ worker'.pc = "done" /\ worker'.result = "ok" /\ worker'.boosted = {}
    /\ txStore' = txStore
    /\ broadcasted' = broadcasted

BoostResendsOldest ==
    /\ worker'.pc = "resendPut"
    /\ worker'.idx = 1
    /\ worker'.underpriced[1] = OldestRow(worker'.signer)

(* below the timeout the call does nothing *)
C8_Patient ==
    ( /\ BoostOfPending
      /\ worker'.blockNumber - ReferenceBlock(OldestRow(worker'.signer))
            < config.pendingTransactionTimeoutBlocks )
    => BoostDoesNothing

(* every row the call resent is a key of the mapping it returns *)
C8_Mapped ==
    ( /\ worker.pc = "resendBroadcast"
      /\ worker'.pc = "done"
      /\ worker'.result = "ok" )
    => \A i \in 1..Len(worker.underpriced) :
          \E m \in worker'.boosted : m[1] = worker.underpriced[i].txId

ReapVisited ==
    /\ worker.pc = "reapLoop"
    /\ worker' # worker

(* the visit fetched a receipt that carries a block number, and the store  *)
(* operation it led to went through                                        *)
ReapReceiptSeen ==
    /\ ReapVisited
    /\ worker'.receipt.fetched
    /\ worker'.receipt.found
    /\ worker'.receipt.blockNumber # Null
    /\ worker'.result # "StoreIoError"

(* C9: a visit whose receipt shows confirmationsNeeded - 1 confirmations   *)
(* writes minedBlockNumber = receipt.blockNumber on the row and removes    *)
(* nothing; one whose receipt shows confirmationsNeeded removes the row.   *)
C9_ReapBoundary ==
    [][ ReapReceiptSeen
        => LET transaction == worker.sortedTxs[worker.idx]
               receipt == worker'.receipt
               confirmations == worker.blockNumber - receipt.blockNumber
           IN /\ confirmations = config.confirmationsNeeded - 1
                 => txStore' = { r \in txStore : ~ SameKey(r, transaction) }
                       \cup {[transaction EXCEPT
                                !.minedBlockNumber = receipt.blockNumber]}
              /\ confirmations = config.confirmationsNeeded
                 => /\ ~ \E r \in txStore' : SameKey(r, transaction)
                    /\ txStore' \subseteq txStore ]_vars

(* the first row of the snapshot was seen with confirmationsNeeded - 1     *)
(* confirmations and now carries the receipt's block                       *)
C9_Witness ==
    /\ worker.pc = "reapLoop" /\ worker.idx = 2
    /\ worker.receipt.found /\ worker.receipt.blockNumber # Null
    /\ worker.blockNumber - worker.receipt.blockNumber
          = config.confirmationsNeeded - 1
    /\ \E r \in txStore :
          /\ SameKey(r, worker.sortedTxs[1])
          /\ r.minedBlockNumber = worker.receipt.blockNumber
    /\ Cardinality(txStore) = 2

(* C10: whenever a row leaves the store, it is a visit of the reap loop    *)
(* that removes it, with a receipt whose block is at least                 *)
(* confirmationsNeeded below the block number of the call.                 *)
C10_RemoveOnlyWhenDeep ==
    [][ (\E r \in txStore : ~ \E k \in txStore' : SameKey(r, k))
        => /\ worker.pc = "reapLoop"
           /\ worker'.receipt.fetched
           /\ worker'.receipt.found
           /\ worker'.receipt.blockNumber # Null
           /\ worker.blockNumber - worker'.receipt.blockNumber
                 >= config.confirmationsNeeded ]_vars

(* a row whose stored minedBlockNumber equals the receipt's block has been *)
(* removed                                                                 *)
C10_Witness ==
    /\ worker.pc = "reapLoop" /\ worker.idx = 2
    /\ worker.receipt.found
    /\ worker.receipt.blockNumber # Null
    /\ worker.sortedTxs[1].minedBlockNumber = worker.receipt.blockNumber
    /\ ~ \E r \in txStore : SameKey(r, worker.sortedTxs[1])

(* C11: a chain failure while the reap loop fetches the receipt of a row   *)
(* is not propagated: removeConfirmedTransactions never ends with a        *)
(* ChainRpcError, it goes on with the next row of its snapshot.            *)
C11_ReapSkipsRpcFailure ==
    [][ ( /\ worker.pc = "reapLoop"
          /\ shouldRecheck(worker.sortedTxs[worker.idx], worker.blockNumber)
          /\ worker' # worker
          /\ ~ worker'.receipt.fetched )
        => /\ worker'.result # "ChainRpcError"
           /\ worker.idx < Len(worker.sortedTxs)
                 => worker'.pc = "reapLoop" /\ worker'.idx = worker.idx + 1 ]_vars

(* C12: every stored row has attempts >= 1 and, when boostBlockNumber is   *)
(* set, boostBlockNumber >= creationBlockNumber.                           *)
C12_AttemptsAndBoostBlock ==
    \A r \in txStore :
        /\ r.attempts >= 1
        /\ r.boostBlockNumber # Null
              => r.boostBlockNumber >= r.creationBlockNumber

(* the poll of a send for a configured signer: the nonce is the larger of  *)
(* the counter and the pending count, the counter becomes nonce + 1        *)
C13_PollStep ==
    \A p \in Procs :
        (sends[p].pc = "acquire" /\ sends'[p].pc = "put")
        => LET signer == sends[p].signer
               nonce == sends'[p].nonce
           IN /\ signer \in ConfiguredSigners
              /\ nonce = Max(nonces[signer], sends'[p].pendingCount)
              /\ nonces'[signer] = nonce + 1

(* the store write of a send: the new row carries the polled nonce,        *)
(* attempts 1 and no boostBlockNumber; the counter is nonce + 1 when the   *)
(* mutex is released                                                       *)
C13_PutStep ==
    \A p \in Procs :
        (sends[p].pc = "put" /\ sends'[p].pc = "broadcast")
        => /\ \E r \in txStore' \ txStore :
                /\ r.from = sends[p].signer
                /\ r.nonce = sends[p].nonce
                /\ r.txId = sends[p].txId
                /\ r.attempts = 1
                /\ r.boostBlockNumber = Null
           /\ nonces'[sends[p].signer] = sends[p].nonce + 1
           /\ nonces' = nonces

C13_Returned ==
    \A p \in Procs :
        (sends[p].pc = "done" /\ sends[p].result = "ok")
        => /\ sends[p].signer \in ConfiguredSigners
           /\ \E l \in putLog :
                 /\ l.from = sends[p].signer
                 /\ l.nonce = sends[p].nonce
                 /\ l.txId = sends[p].txId
           /\ nonces[sends[p].signer] >= sends[p].nonce + 1

(* C13: a successful send of a configured signer uses the nonce            *)
(* max(counter, pending count) read at its poll, stores its row with that  *)
(* nonce, attempts 1 and no boostBlockNumber, and its critical section     *)
(* leaves the counter at nonce + 1.                                        *)
C13_SendNonce ==
    /\ []C13_Returned
    /\ [][C13_PollStep /\ C13_PutStep]_vars

(* a send has succeeded with nonce 2 after another stored nonce 0: the     *)
(* counter was 1, the pending count 2, and the counter is now 3            *)
C13_Witness ==
    \E p, q \in Procs :
        /\ sends[p].pc = "done" /\ sends[p].result = "ok"
        /\ sends[q].pc = "done" /\ sends[q].result = "ok"
        /\ sends[p].signer = sends[q].signer
        /\ sends[q].nonce = 0 /\ sends[p].nonce = 2
        /\ nonces[sends[p].signer] = 3

(* a send is never in the queue of the nonce mutex, holding it or waiting, *)
(* while its broadcast is outstanding                                      *)
C14_NotHeldWhileBroadcasting ==
    \A p \in Procs : sends[p].pc = "broadcast" => ~ InQueue(p)

(* the step that ends the store write of a send releases the mutex the     *)
(* send holds; the broadcast step leaves the mutex alone                   *)
C14_ReleaseStep ==
    \A p \in Procs :
        /\ (sends[p].pc = "put" /\ sends'[p].pc # "put")
              => /\ Head(nonceMutex) = p
                 /\ nonceMutex' = Tail(nonceMutex)
        /\ (sends[p].pc = "broadcast" /\ sends'[p].pc # "broadcast")
              => /\ broadcasted' # broadcasted \/ sends[p].txId \in broadcasted
                 /\ nonceMutex' = nonceMutex

(* C14: the nonce mutex is never held by a send while that send is         *)
(* broadcasting: it is released with the end of the store write, before    *)
(* broadcastTransaction is called.                                         *)
C14_ReleasedBeforeBroadcast ==
    /\ []C14_NotHeldWhileBroadcasting
    /\ [][C14_ReleaseStep]_vars

(* another send has gone through its whole critical section and returned   *)
(* while the broadcast of an earlier send of the same signer is still      *)
(* outstanding                                                             *)
C14_Witness ==
    \E p, q \in Procs :
        /\ p # q
        /\ sends[p].pc = "broadcast"
        /\ sends[q].pc = "done" /\ sends[q].result = "ok"
        /\ sends[q].signer = sends[p].signer
        /\ sends[q].ticket > sends[p].ticket
        /\ sends[q].nonce = sends[p].nonce + 1

(* the row a resend writes, next to the row it was called with *)
ResentFrom(new, old, currentBlock, newGasPriceNum) ==
    /\ new.from = old.from
    /\ new.nonce = old.nonce
    /\ new.to = old.to
    /\ new.gas = old.gas
    /\ new.data = old.data
    /\ new.serverAction = old.serverAction
    /\ new.creationBlockNumber = old.creationBlockNumber
    /\ new.minedBlockNumber = old.minedBlockNumber
    /\ new.attempts = old.attempts + 1
    /\ new.boostBlockNumber = currentBlock
    /\ new.gasPrice * config.retryGasPriceFactorDen = newGasPriceNum
    /\ new.value = 0
    /\ new.txId # old.txId

(* C15: the store write of a resend replaces exactly the row the resend    *)
(* was called with, by a row with the same from, nonce, to, gas limit,     *)
(* data, serverAction, creationBlockNumber and minedBlockNumber, attempts  *)
(* + 1, boostBlockNumber = currentBlock, gasPrice = newGasPrice, value 0   *)
(* and a new txId; no other row and no counter changes, and the resend     *)
(* that then returns has changed nothing else.                             *)
C15_ResendReplacesRow ==
    [][ /\ (worker.pc = "resendPut" /\ worker'.pc = "resendBroadcast")
           => LET old == worker.underpriced[worker.idx]
                  new == worker'.storedTx
              IN /\ old \in txStore
                 /\ txStore' = (txStore \ {old}) \cup {new}
                 /\ Cardinality(txStore') = Cardinality(txStore)
                 /\ ResentFrom(new, old, worker.blockNumber, worker.newGasPriceNum)
                 /\ nonces' = nonces
        /\ (worker.pc = "resendBroadcast" /\ worker' # worker)
           => /\ txStore' = txStore
              /\ nonces' = nonces
              /\ worker.storedTx \in txStore ]_vars

(* the rows boost goes on to resend are exactly the signer's rows priced   *)
(* below the repriced value of the oldest row, in ascending nonce order    *)
C16_Selected ==
    (BoostCalled /\ worker'.pc = "resendPut")
    => LET rows == SignerRows(worker'.signer)
           num == RepricedNum(OldestRow(worker'.signer).gasPrice)
           underpriced == worker'.underpriced
       IN /\ worker'.newGasPriceNum = num
          /\ { underpriced[i] : i \in 1..Len(underpriced) }
                = { r \in rows : r.gasPrice * config.retryGasPriceFactorDen < num }
          /\ \A i, j \in 1..Len(underpriced) :
                i < j => underpriced[i].nonce < underpriced[j].nonce

(* the rows are rewritten one by one in that order, and nothing else is *)
C16_InOrder ==
    (worker.pc = "resendPut" /\ worker'.pc = "resendBroadcast")
    => LET cur == worker.underpriced[worker.idx]
       IN /\ \A r \in txStore : ~ SameKey(r, cur) => r \in txStore'
          /\ \A i \in 1..Len(worker.underpriced) :
                (\E r \in txStore : r = worker.underpriced[i]) <=> i >= worker.idx

(* when the last resend has returned, the mapping has one entry per resent *)
(* row, keyed by the txId the row had, and every resent row is priced at   *)
(* the repriced value or above                                             *)
C16_Afterwards ==
    (worker.pc = "resendBroadcast" /\ worker'.pc = "done" /\ worker'.result = "ok")
    => LET underpriced == worker.underpriced
       IN /\ { m[1] : m \in worker'.boosted }
                = { underpriced[i].txId : i \in 1..Len(underpriced) }
          /\ Cardinality(worker'.boosted) = Len(underpriced)
          /\ \A i \in 1..Len(underpriced) :
                \E r \in txStore' :
                   /\ SameKey(r, underpriced[i])
                   /\ r.gasPrice * config.retryGasPriceFactorDen
                         >= worker.newGasPriceNum

(* C16: a boost past the timeout check whose resends all succeed resends   *)
(* exactly the signer's rows with gasPrice < newGasPrice, in ascending     *)
(* nonce order, leaves the other rows as they are, returns one mapping     *)
(* entry per resent row under its old txId, and afterwards the rows it     *)
(* went over are priced at newGasPrice or above.                           *)
C16_BoostsExactlyUnderpriced ==
    [][C16_Selected /\ C16_InOrder /\ C16_Afterwards]_vars

(* C17: a boost for a signer whose oldest stored row has a nonce below the *)
(* latest transaction count of the chain returns the empty mapping and     *)
(* changes nothing: no row, no broadcast, no counter, whatever the block   *)
(* height it is called with and the gas prices of the rows.                *)
C17_MinedOldestLeftAlone ==
    [][ ( /\ BoostCalled
          /\ SignerRows(worker'.signer) # {}
          /\ worker'.chainNonce # Null
          /\ OldestRow(worker'.signer).nonce < worker'.chainNonce )
        => /\ BoostDoesNothing
           /\ nonces' = nonces
           /\ putLog' = putLog ]_vars

(* a boost has returned empty-handed for an oldest row that is below the   *)
(* latest count, past its timeout and priced below the repriced value      *)
C17_Witness ==
    /\ worker.op = "boost" /\ worker.pc = "done" /\ worker.result = "ok"
    /\ worker.boosted = {}
    /\ SignerRows(worker.signer) # {}
    /\ LET oldest == OldestRow(worker.signer)
       IN /\ worker.chainNonce # Null
          /\ oldest.nonce < worker.chainNonce
          /\ oldest.attempts = 1
          /\ worker.blockNumber - ReferenceBlock(oldest)
                >= config.pendingTransactionTimeoutBlocks
          /\ oldest.gasPrice * config.retryGasPriceFactorDen
                < RepricedNum(oldest.gasPrice)

(* the step in which the reap loop, having found the visited row confirmed *)
(* deeply enough, has removed it                                           *)
ReapPruned ==
    /\ worker.pc = "reapLoop"
    /\ worker'.pruned # worker.pruned

(* the sweep has ended, having found some row confirmed deeply enough *)
ReapEndedAfterPruning ==
    /\ worker.pc = "reapLoop"
    /\ worker'.pc = "done" /\ worker'.result = "ok"
    /\ worker'.pruned # {}

SnapshotRows(snapshot) == { snapshot[i] : i \in 1..Len(snapshot) }

(* the rows of the snapshot the claim expects in the store after a sweep   *)
(* that found the keys in pruned confirmed: the rows of a pruned signer    *)
(* above the pruned nonce that were not found confirmed themselves, and    *)
(* the rows of the other signers                                           *)
KeptBySweep(snapshot, pruned) ==
    { row \in SnapshotRows(snapshot) :
        \E k \in pruned :
           \/ /\ row.from = k[1] /\ row.nonce > k[2]
              /\ <<row.from, row.nonce>> \notin pruned
           \/ row.from # k[1] }

(* the row is a pruned one, or one below a pruned one of its signer *)
CoveredBy(row, pruned) ==
    \E k \in pruned : row.from = k[1] /\ row.nonce <= k[2]

(* C18, as stated: when a sweep that found (F, K) confirmed deeply enough  *)
(* has ended, no row of F with nonce <= K is stored, and the rows of F     *)
(* above K that were not confirmed themselves and all rows of the other    *)
(* signers are stored as they were.                                        *)
C18_OthersUnchangedAfterCall ==
    [][ ReapEndedAfterPruning
        => /\ \A r \in txStore' : ~ CoveredBy(r, worker'.pruned)
           /\ KeptBySweep(worker.sortedTxs, worker'.pruned) \subseteq txStore' ]_vars

(* C18, amended: the removal deletes exactly the rows of F with nonce <= K *)
(* and leaves every other row as it is; the other visits of the sweep      *)
(* remove nothing and change a row only in its minedBlockNumber; when the  *)
(* sweep has ended no row of F with nonce <= K is stored, and every row of *)
(* the snapshot that is neither one the sweep found confirmed nor below    *)
(* one of its signer is stored, unchanged but for its minedBlockNumber.    *)
C18_RemovalPrunesPrefix ==
    [][ /\ ReapPruned
           => LET row == worker.sortedTxs[worker.idx]
              IN /\ worker'.pruned = worker.pruned \cup {<<row.from, row.nonce>>}
                 /\ txStore' = { r \in txStore :
                                   ~ (r.from = row.from /\ r.nonce <= row.nonce) }
        /\ (worker.pc = "reapLoop" /\ ~ ReapPruned)
           => \A r \in txStore :
                 \E k \in txStore' :
                    k = [r EXCEPT !.minedBlockNumber = k.minedBlockNumber]
        /\ ReapEndedAfterPruning
           => /\ \A r \in txStore' : ~ CoveredBy(r, worker'.pruned)
              /\ \A row \in SnapshotRows(worker.sortedTxs) :
                    ~ CoveredBy(row, worker'.pruned)
                    => \E r \in txStore' :
                          r = [row EXCEPT !.minedBlockNumber = r.minedBlockNumber]
      ]_vars

(* a sweep has removed the row with nonce 0 of a signer and written        *)
(* minedBlockNumber on the same signer's row with nonce 1                  *)
C18_Witness ==
    /\ worker.op = "reap" /\ worker.pc = "done" /\ worker.result = "ok"
    /\ worker.pruned = {<<managerAddress, 0>>}
    /\ \E r \in txStore :
          r.from = managerAddress /\ r.nonce = 1 /\ r.minedBlockNumber # Null
    /\ ~ \E r \in txStore : r.from = managerAddress /\ r.nonce = 0

(* C19: a send that holds the nonce mutex, or waits for it, eventually is  *)
(* out of its queue: it has acquired it and released it, whether its poll, *)
(* its signing or its store write failed or not, so no later send is       *)
(* blocked for ever.                                                       *)
C19_MutexReleased ==
    \A p \in Procs : InQueue(p) ~> ~ InQueue(p)

(* a send has failed in its store write and the send queued behind it has  *)
(* gone through its own critical section                                   *)
C19_Witness ==
    \E p, q \in Procs :
        /\ p # q
        /\ sends[p].pc = "done" /\ sends[p].result = "StoreIoError"
        /\ sends[q].ticket = sends[p].ticket + 1
        /\ sends[q].pc = "broadcast"
        /\ nonceMutex = <<>>

(* the step is the poll of a send: the only place pollNonce and the        *)
(* increment run                                                           *)
PollOfSomeSend ==
    \E p \in Procs : sends[p].pc = "acquire" /\ sends'[p].pc # "acquire"

(* C20: no counter of a configured signer ever decreases, and a counter    *)
(* changes only in the poll-and-increment of a send: the steps of resend,  *)
(* boost and reap leave every counter as it is, so the nonce a send is     *)
(* assigned does not depend on a resend running beside it.                 *)
C20_CountersOnlyGrowBySend ==
    [][ /\ DOMAIN nonces' = DOMAIN nonces
        /\ \A signer \in ConfiguredSigners : nonces'[signer] >= nonces[signer]
        /\ nonces' # nonces => PollOfSomeSend
        /\ worker' # worker => nonces' = nonces ]_vars

(* a resend has written its row while a send of the same signer is inside  *)
(* its critical section, with a nonce its poll raised to the pending count *)
C20_Witness ==
    /\ worker.pc = "resendBroadcast"
    /\ \E p \in Procs :
          /\ sends[p].pc = "put"
          /\ sends[p].signer = worker.storedTx.from
          /\ sends[p].pendingCount = sends[p].nonce
          /\ sends[p].nonce > worker.storedTx.nonce + 1
          /\ nonces[sends[p].signer] = sends[p].nonce + 1

(* the (from, nonce) keys of a set of rows *)
KeysOf(rows) == { <<r.from, r.nonce>> : r \in rows }

(* the step is a visit of the reap loop *)
ReapVisit == worker.pc = "reapLoop" /\ worker' # worker

(* the step is the last visit of a sweep that ran to its end *)
ReapEnded ==
    /\ worker.pc = "reapLoop"
    /\ worker'.pc = "done" /\ worker'.result = "ok"

(* the keys the sends store in this step *)
KeysPutBySends ==
    { <<sends[p].signer, sends[p].nonce>> :
        p \in { q \in Procs : sends[q].pc = "put" /\ sends'[q].pc # "put" } }

(* C21, as stated: no visit of a sweep writes back a row that an earlier   *)
(* visit of the same sweep removed, and when the sweep has ended the       *)
(* stored (from, nonce) keys are a subset of the keys of the snapshot the  *)
(* sweep took when it started.                                             *)
C21_KeysWithinSnapshot ==
    [][ /\ ReapVisit
           => \A r \in txStore' : CoveredBy(r, worker.pruned) => r \in txStore
        /\ ReapEnded
           => KeysOf(txStore') \subseteq KeysOf(SnapshotRows(worker.sortedTxs))
      ]_vars

(* C21, amended: no visit of a sweep adds a key to the store, so none      *)
(* writes back a row that an earlier visit removed, and the write of       *)
(* minedBlockNumber replaces the row of a key that is stored; while a      *)
(* sweep runs no row at or below a key it removed is stored, and a key     *)
(* enters the store only through the put of a send running beside the      *)
(* sweep: after the sweep the stored keys are a subset of the keys         *)
(* present at its start together with the keys such sends stored.          *)
C21_SweepAddsNoKey ==
    /\ [](worker.op = "reap"
            => \A r \in txStore : ~ CoveredBy(r, worker.pruned))
    /\ [][ /\ ReapVisit
              => /\ KeysOf(txStore') \subseteq KeysOf(txStore)
                 /\ \A r \in txStore' : CoveredBy(r, worker.pruned) => r \in txStore
           /\ worker.pc = "reapLoop"
              => KeysOf(txStore') \ KeysOf(txStore) \subseteq KeysPutBySends
         ]_vars

(* a sweep over the two rows of a signer has removed the row with nonce 0  *)
(* and then, in its last visit, written the block of the receipt it        *)
(* fetched on the row with nonce 1, which is all that is stored            *)
C21_Witness ==
    /\ worker.op = "reap" /\ worker.pc = "done" /\ worker.result = "ok"
    /\ worker.pruned = {<<managerAddress, 0>>}
    /\ KeysOf(txStore) = {<<managerAddress, 1>>}
    /\ worker.receipt.found /\ worker.receipt.blockNumber # Null
    /\ worker.blockNumber - worker.receipt.blockNumber < config.confirmationsNeeded
    /\ \A r \in txStore : r.minedBlockNumber = worker.receipt.blockNumber

====
